---- MODULE Spec2Model ----
(***************************************************************************)
(* Model of the promo-entry bot in main.go: startup (validateConfig,      *)
(* balance check, mode selection), the two run modes, one submission      *)
(* cycle (submitEntry), the two CAPTCHA solvers with their polling loops  *)
(* and the primary / secondary promo submissions.                         *)
(*                                                                         *)
(* Every remote call (HTTP request, user prompt) is one step whose answer *)
(* is drawn from a small set.  Time is counted in seconds since the       *)
(* solver's startTime.                                                     *)
(***************************************************************************)
EXTENDS Integers, Sequences, FiniteSets, TLC

\* ---- bounds of the model ------------------------------------------------
MaxRetriesBound == 1        \* max_captcha_retries in the config file: -1..MaxRetriesBound
MaxCycles == 2              \* submission cycles started in one run
MaxCookies == 2             \* Set-Cookie entries in one submission response

\* ---- program constants --------------------------------------------------
DefaultMaxCaptchaRetries == 5
DefaultCaptchaTimeout == 120
PollSleepSeconds == 10
AdditionalEntries == 5
StatusOK == 200

\* ---- input sets ---------------------------------------------------------
StringChoices == {"", "x"}                \* a required text setting: missing or present
TimeoutChoices == {0, 25}                 \* captcha_timeout in the config file
Latencies == {0, 60}                      \* seconds one getTaskResult call takes
Tokens == {"T1", "T2"}                    \* gRecaptchaResponse values of a solved task
PollStatuses == {"ready", "processing", "failed"}
StatusCodes == {200, 204, 403}
ModeInputs == {"1", "2", "3"}
ConfirmInputs == {"y", "Y", "n", ""}
UserEmails == {"u@x", ""}
AliasEmail == "alias@x"

\* createTask answers: transport failure, a body that is not JSON, or a JSON
\* object whose taskId is absent, a string or a number
CreateResponses ==
    { [kind |-> "neterr", idType |-> "none", id |-> ""],
      [kind |-> "malformed", idType |-> "none", id |-> ""],
      [kind |-> "json", idType |-> "absent", id |-> ""],
      [kind |-> "json", idType |-> "string", id |-> "abc"],
      [kind |-> "json", idType |-> "string", id |-> ""],
      [kind |-> "json", idType |-> "number", id |-> "7"],
      [kind |-> "json", idType |-> "number", id |-> "0"] }

\* getTaskResult answers
PollResponses ==
    { [kind |-> "neterr", status |-> "", token |-> ""],
      [kind |-> "malformed", status |-> "", token |-> ""] }
    \cup { [kind |-> "json", status |-> "ready", token |-> t] : t \in Tokens }
    \cup { [kind |-> "json", status |-> s, token |-> ""] : s \in PollStatuses \ {"ready"} }
    \cup { [kind |-> "json", status |-> "processing", token |-> "T1"] }

NoResp == [kind |-> "none", status |-> "", token |-> ""]

Cookies ==
    { [Name |-> "cf_clearance", Value |-> "c1"],
      [Name |-> "cf_clearance", Value |-> "c2"],
      [Name |-> "cf_clearance", Value |-> ""],
      [Name |-> "session", Value |-> "c1"] }

CookieLists == UNION { [1..n -> Cookies] : n \in 0..MaxCookies }

\* answers of the submission endpoint: no response at all (client could not
\* be built or the request failed), a response whose body cannot be read, or
\* a response with a status code and, with status 200, Set-Cookie entries
SubmitResponses ==
    { [kind |-> "clienterr", StatusCode |-> 0, cookies |-> <<>>],
      [kind |-> "readerr", StatusCode |-> 200, cookies |-> <<>>] }
    \cup { [kind |-> "http", StatusCode |-> c, cookies |-> <<>>] : c \in StatusCodes }
    \cup { [kind |-> "http", StatusCode |-> 200, cookies |-> cs] : cs \in CookieLists }

\* answers to an additional submission: no response, or a response without
\* cookies whose status is 200 or another one
SecondaryResponses == { r \in SubmitResponses : r.cookies = <<>> }

NoSubmit == [kind |-> "none", StatusCode |-> 0, cookies |-> <<>>]

\* ---- errors -------------------------------------------------------------
NoErr == [tag |-> "none", cause |-> "none", code |-> 0]
MkErr(tag, cause, code) == [tag |-> tag, cause |-> cause, code |-> code]

VARIABLES
    replay,         \* the answers given to one solve and its outcome, when solves are compared
    config,         \* the global Config record
    pc,             \* position of the single thread of control
    mode,           \* "none", "interactive" or "automatic"
    cycles,         \* submitEntry calls started so far
    successCount,   \* automaticMode's successCount
    totalCount,     \* automaticMode's totalCount
    rate,           \* the success rate last printed, in hundredths of a percent
    answer,         \* confirmAction: the line read at the prompt just answered
    balanceCheck,   \* main: the checkCaptchaBalance call whose outcome is being printed
    email,          \* submitEntry: email
    captchaToken,   \* submitEntry: captchaToken
    cfClearance,    \* submitEntry: cfClearance
    err,            \* submitEntry: the error it returns
    solveState,     \* "idle", "polling", "solved", "timedout", "exhausted", "providererr"
    taskID,         \* solver: createTaskResult.TaskID
    i,              \* solver: loop index of the polling loop
    elapsed,        \* solver: time.Since(startTime) in seconds
    creates,        \* createTask calls made in this cycle
    polls,          \* getTaskResult calls made in this solve
    pollErrs,       \* of these, the calls that returned an error
    pollNotReady,   \* of these, the calls that returned a status other than "ready"
    lastResp,       \* the answer to the last getTaskResult call
    submits,        \* submission calls made in this cycle, in order
    addI,           \* submitEntry: loop index of the additional-entries loop
    addFailed,      \* additional entries that returned an error
    lastSubmit,     \* the answer to the last submission call
    lastResult,     \* what the last submission call returned
    logCalls        \* logSubmission calls made in this cycle

runVars == <<mode, cycles, successCount, totalCount, rate, answer, balanceCheck>>
entryVars == <<email, captchaToken, cfClearance, err>>
solveVars == <<solveState, taskID, i, elapsed, creates, polls, pollErrs, pollNotReady, lastResp>>
submitVars == <<submits, addI, addFailed, lastSubmit, lastResult, logCalls>>
vars == <<config, pc, runVars, entryVars, solveVars, submitVars, replay>>

\* the outcome of a solve: what it returned and what it took
NoOutcome ==
    [polls |-> 0, solveState |-> "idle", captchaToken |-> "", err |-> NoErr,
     elapsed |-> 0]

\* nothing is recorded and nothing is replayed: the answers of the provider
\* are free
NoReplay ==
    [phase |-> "off", created |-> FALSE, answers |-> <<>>, at |-> 1,
     first |-> NoOutcome]

\* ---- the printed success rate ---------------------------------------------
\* no rate has been printed yet
NoRate == -1

\* the quotient of the float64 division 0/0, printed as "NaN"
RateNaN == -2

\* float64 values are computed on their 53-bit mantissas, held as sequences
\* of 13-bit limbs, least significant first
Limb == 8192

\* the least e >= 1 with s * 2^e >= t, for 0 < s < t
RECURSIVE NormShift(_, _, _)
NormShift(s, t, e) == IF s * 2 >= t THEN e ELSE NormShift(s * 2, t, e + 1)

\* n more limbs of the quotient r/t by long division, with the remainder
RECURSIVE DivLimbs(_, _, _, _)
DivLimbs(r, t, n, acc) ==
    IF n = 0 THEN [limbs |-> acc, rem |-> r]
    ELSE DivLimbs((r * Limb) % t, t, n - 1, <<(r * Limb) \div t>> \o acc)

\* limbs times a small factor, from limb k on, with the carry coming in
RECURSIVE MulSmall(_, _, _, _)
MulSmall(limbs, m, k, carry) ==
    IF k > Len(limbs) THEN <<carry>>
    ELSE <<(limbs[k] * m + carry) % Limb>>
             \o MulSmall(limbs, m, k + 1, (limbs[k] * m + carry) \div Limb)

\* limbs plus v at limb k, the carry going up
RECURSIVE AddSmall(_, _, _)
AddSmall(limbs, k, v) ==
    IF v = 0 \/ k > Len(limbs) THEN limbs
    ELSE AddSmall([limbs EXCEPT ![k] = (@ + v) % Limb], k + 1,
                  (limbs[k] + v) \div Limb)

\* the number held by the limbs from k on, as a multiple of the weight of limb k
RECURSIVE HighValue(_, _)
HighValue(limbs, k) ==
    IF k > Len(limbs) THEN 0 ELSE limbs[k] + Limb * HighValue(limbs, k + 1)

\* float64(s)/float64(t) for 0 < s < t: the mantissa of the quotient rounded to
\* 53 bits, halfway cases to even; its value is mant / 2^(52 + exp)
Float64Div(s, t) ==
    LET e == NormShift(s, t, 1)
        q == DivLimbs(s * 2 ^ e - t, t, 4, <<>>)
        m == q.limbs \o <<1>>
        up == 2 * q.rem > t \/ (2 * q.rem = t /\ q.limbs[1] % 2 = 1)
    IN  [mant |-> IF up THEN AddSmall(m, 1, 1) ELSE m, exp |-> e]

\* a float64 times 100: the product of the mantissa rounded to 53 bits,
\* halfway cases to even; its value is mant / 2^(52 + exp)
Float64Mul100(x) ==
    LET n == MulSmall(x.mant, 100, 1, 0)
        drop == IF n[5] >= 128 THEN 128 ELSE 64
        low == n[1] % drop
        odd == (n[1] \div drop) % 2 = 1
        cut == [n EXCEPT ![1] = @ - low]
        up == 2 * low > drop \/ (2 * low = drop /\ odd)
    IN  [mant |-> IF up THEN AddSmall(cut, 1, drop) ELSE cut, exp |-> x.exp]

\* a float64 as "%.2f" prints it, in hundredths: the nearest hundredth of the
\* exact value, halfway cases to even
FormatHundredths(x) ==
    LET r == MulSmall(x.mant, 100, 1, 0)
        g == 52 + x.exp
        a == g \div 13
        b == g % 13
        hi == HighValue(r, a + 1)
        int == hi \div 2 ^ b
        top == IF b = 0 THEN r[a] ELSE hi % 2 ^ b
        half == IF b = 0 THEN Limb \div 2 ELSE 2 ^ (b - 1)
        below == IF b = 0 THEN a - 1 ELSE a
        rest == \E k \in 1..below : r[k] # 0
        up == top > half \/ (top = half /\ (rest \/ int % 2 = 1))
    IN  IF up THEN int + 1 ELSE int

\* variant: the quotient is cut off after the second decimal
SuccessRate_Truncated(s, t) ==
    IF t = 0 THEN RateNaN ELSE (10000 * s) \div t

\* float64(s)/float64(t)*100 as "%.2f" prints it, in hundredths of a percent,
\* for 0 <= s <= t < 2^15
SuccessRate(s, t) ==
    IF t = 0 THEN RateNaN
    ELSE IF s = 0 THEN 0
    ELSE IF s = t THEN 10000
    ELSE FormatHundredths(Float64Mul100(Float64Div(s, t)))

\* ---- the balance check ----------------------------------------------------
\* response bodies of getBalance: numerals in the forms strconv.ParseFloat
\* reads (point, sign, exponent, digit separators, hexadecimal), the special
\* values in several spellings, values outside the float64 range, and bodies
\* it rejects
Bodies ==
    {"10.5", "0", "5", "1.50", "00.5", ".5", "5.", "105",
     "-1", "+5", "-0", "1e1", "1E1", "1e-1", "1.5e+2", "1e0_1", "1_0",
     "0x1p1", "0X1P-1", "0x.8p1", "0x1_0p0", "0xAp0",
     "NaN", "nan", "Inf", "inf", "-Inf", "+inf", "Infinity", "-infinity",
     "5e555", "-5e555", "5e-555", "-5e-555", "0x1p2000",
     "", ".", "abc", "1a", "1.0.5", "1e", "1e+", "+", "-", "+nan", "-NaN",
     "infin", "nanx", "Inf1", "_1", "1_", "1__0", "1_.5", "0x1", "0x", "0xp1",
     "10.5\n", " 1", "1 ", "$5", "1,5"}

\* what http.Get and io.ReadAll can give: an error of either, or a body
BalanceResponses ==
    {[kind |-> k, body |-> ""] : k \in {"transport", "read"}}
        \cup {[kind |-> "body", body |-> b] : b \in Bodies}

\* s[k], counting the bytes of s from 1
At(s, k) == SubSeq(s, k, k)

\* the place of the byte c in str, 0 when it is not there
IndexIn(str, c) ==
    IF \E k \in 1..Len(str) : At(str, k) = c
       THEN CHOOSE k \in 1..Len(str) : At(str, k) = c
       ELSE 0

\* strconv's lower: the lower-case letter of an upper-case one
lower(c) ==
    IF IndexIn("ABCDEFGHIJKLMNOPQRSTUVWXYZ", c) = 0 THEN c
    ELSE At("abcdefghijklmnopqrstuvwxyz", IndexIn("ABCDEFGHIJKLMNOPQRSTUVWXYZ", c))

\* the value of a decimal digit or of a lower-case hexadecimal one, -1 for
\* any other byte
DigitValue(c) == IndexIn("0123456789abcdef", c) - 1

\* a float64: NaN, an infinity, or the float64 nearest to
\* (-1)^neg * mant * 10^exp, written with a mant that does not end in 0
RECURSIVE Float(_, _, _)
Float(neg, mant, exp) ==
    IF mant = 0 THEN [kind |-> "finite", neg |-> neg, mant |-> 0, exp |-> 0]
    ELSE IF mant % 10 = 0 THEN Float(neg, mant \div 10, exp + 1)
    ELSE [kind |-> "finite", neg |-> neg, mant |-> mant, exp |-> exp]

Inf(neg) == [kind |-> "inf", neg |-> neg, mant |-> 0, exp |-> 0]
NaN == [kind |-> "nan", neg |-> FALSE, mant |-> 0, exp |-> 0]

\* the float64 zero that is returned next to an error
ZeroFloat == [kind |-> "finite", neg |-> FALSE, mant |-> 0, exp |-> 0]

\* the number of bytes at the start of s that match prefix from byte k on,
\* letters compared without case
RECURSIVE commonPrefixLenIgnoreCase(_, _, _)
commonPrefixLenIgnoreCase(s, prefix, k) ==
    IF k > Len(prefix) \/ k > Len(s) \/ lower(At(s, k)) # At(prefix, k)
       THEN k - 1
       ELSE commonPrefixLenIgnoreCase(s, prefix, k + 1)

\* special found no special value
NoSpecial == [ok |-> FALSE, n |-> 0, value |-> ZeroFloat]

\* special's test for an infinity after nsign bytes of sign, n0 being the
\* length of the prefix shared with "infinity": all of it, or only "inf" when
\* less than all of it is there
special_inf(neg, nsign, n0) ==
    IF n0 = 8 THEN [ok |-> TRUE, n |-> nsign + 8, value |-> Inf(neg)]
    ELSE IF n0 >= 3 THEN [ok |-> TRUE, n |-> nsign + 3, value |-> Inf(neg)]
    ELSE NoSpecial

\* special's switch on the first byte c of s
special_switch(s, c) ==
    IF c \in {"+", "-"}
       THEN special_inf(c = "-", 1,
                commonPrefixLenIgnoreCase(SubSeq(s, 2, Len(s)), "infinity", 1))
    ELSE IF c \in {"i", "I"}
       THEN special_inf(FALSE, 0, commonPrefixLenIgnoreCase(s, "infinity", 1))
    ELSE IF c \in {"n", "N"} /\ commonPrefixLenIgnoreCase(s, "nan", 1) = 3
       THEN [ok |-> TRUE, n |-> 3, value |-> NaN]
    ELSE NoSpecial

\* strconv's special: "inf" or "infinity" with an optional sign, "nan"
\* without one, in any case; n is the number of bytes that were read
special(s) == IF s = "" THEN NoSpecial ELSE special_switch(s, At(s, 1))

\* strconv's underscoreOK over the bytes of s from k on, saw being the kind of
\* the byte before: "0" a digit or the base prefix, "_" an underscore, "!"
\* any other, "^" the start
RECURSIVE underscoreScan(_, _, _, _)
underscoreScan(s, k, hex, saw) ==
    IF k > Len(s) THEN saw # "_"
    ELSE IF DigitValue(IF hex THEN lower(At(s, k)) ELSE At(s, k)) \in
                (IF hex THEN 0..15 ELSE 0..9)
        THEN underscoreScan(s, k + 1, hex, "0")
    ELSE IF At(s, k) = "_"
        THEN saw = "0" /\ underscoreScan(s, k + 1, hex, "_")
    ELSE saw # "_" /\ underscoreScan(s, k + 1, hex, "!")

\* underscoreOK after the optional sign
underscoreOK_unsigned(t) ==
    IF Len(t) >= 2 /\ At(t, 1) = "0" /\ lower(At(t, 2)) \in {"b", "o", "x"}
       THEN underscoreScan(t, 3, lower(At(t, 2)) = "x", "0")
       ELSE underscoreScan(t, 1, FALSE, "^")

\* an underscore is allowed only between two digits, or between the base
\* prefix and a digit
underscoreOK(s) ==
    IF Len(s) >= 1 /\ At(s, 1) \in {"-", "+"}
       THEN underscoreOK_unsigned(SubSeq(s, 2, Len(s)))
       ELSE underscoreOK_unsigned(s)

\* readFloat's loop over the mantissa from byte a.i on: underscores are
\* skipped, the first point is noted, leading zeros are not counted as
\* digits, and any other byte, a second point included, ends the loop; c is
\* the byte at a.i and d its digit value
RECURSIVE readFloat_mantissa(_, _, _)
readFloat_byte(s, base, a, c, d) ==
    IF c = "_"
       THEN readFloat_mantissa(s, base,
                [a EXCEPT !.underscores = TRUE, !.i = @ + 1])
    ELSE IF c = "."
       THEN IF a.sawdot THEN a
            ELSE readFloat_mantissa(s, base,
                    [a EXCEPT !.sawdot = TRUE, !.dp = a.nd, !.i = @ + 1])
    ELSE IF d = 0 /\ a.nd = 0
       THEN readFloat_mantissa(s, base,
                [a EXCEPT !.sawdigits = TRUE, !.dp = @ - 1, !.i = @ + 1])
    ELSE IF d \in 0..9 \/ (base = 16 /\ d \in 10..15)
       THEN readFloat_mantissa(s, base,
                [a EXCEPT !.sawdigits = TRUE, !.nd = @ + 1,
                          !.mantissa = @ * base + d, !.i = @ + 1])
    ELSE a

readFloat_mantissa(s, base, a) ==
    IF a.i > Len(s) THEN a
    ELSE readFloat_byte(s, base, a, At(s, a.i), DigitValue(lower(At(s, a.i))))

\* readFloat's loop over the digits of the exponent from byte k on: the value
\* stops growing at 10000; the result is the exponent and the next byte
RECURSIVE readFloat_exponent(_, _, _, _)
readFloat_exponent(s, k, e, underscores) ==
    IF k > Len(s) THEN [e |-> e, i |-> k, underscores |-> underscores]
    ELSE IF At(s, k) = "_" THEN readFloat_exponent(s, k + 1, e, TRUE)
    ELSE IF DigitValue(At(s, k)) \in 0..9
        THEN readFloat_exponent(s, k + 1,
                IF e < 10000 THEN e * 10 + DigitValue(At(s, k)) ELSE e,
                underscores)
    ELSE [e |-> e, i |-> k, underscores |-> underscores]

\* readFloat found no number
NoNumber ==
    [ok |-> FALSE, n |-> 0, neg |-> FALSE, hex |-> FALSE, mantissa |-> 0, exp |-> 0]

\* the end of readFloat: n bytes were read and the point stands after dp
\* digits (binary digits when hex); the number read is
\* (-1)^neg * mantissa * 10^exp, or * 2^exp when hex
readFloat_done(s, neg, hex, m, n, dp, underscores) ==
    IF underscores /\ ~underscoreOK(SubSeq(s, 1, n)) THEN NoNumber
    ELSE [ok |-> TRUE, n |-> n, neg |-> neg, hex |-> hex,
          mantissa |-> m.mantissa,
          exp |-> IF m.mantissa = 0 THEN 0
                  ELSE dp - (IF hex THEN 4 * m.nd ELSE m.nd)]

\* readFloat after the digits of the exponent, ex being what the loop returned
readFloat_exponentRead(s, neg, hex, m, dp, esign, ex) ==
    readFloat_done(s, neg, hex, m, ex.i - 1, dp + ex.e * esign, ex.underscores)

\* readFloat after the exponent character and its sign esign: one digit at
\* least from byte k on
readFloat_exponentAt(s, neg, hex, m, dp, esign, k) ==
    IF k > Len(s) \/ DigitValue(At(s, k)) \notin 0..9 THEN NoNumber
    ELSE readFloat_exponentRead(s, neg, hex, m, dp, esign,
                                readFloat_exponent(s, k, 0, m.underscores))

\* readFloat after the mantissa: there must have been a digit; then the
\* optional exponent, which a hexadecimal mantissa must have
readFloat_afterMantissa(s, neg, hex, m, dp) ==
    IF ~m.sawdigits THEN NoNumber
    ELSE IF m.i <= Len(s) /\ lower(At(s, m.i)) = (IF hex THEN "p" ELSE "e")
        THEN IF m.i + 1 > Len(s) THEN NoNumber
             ELSE readFloat_exponentAt(s, neg, hex, m, dp,
                      IF At(s, m.i + 1) = "-" THEN -1 ELSE 1,
                      IF At(s, m.i + 1) \in {"+", "-"} THEN m.i + 2 ELSE m.i + 1)
    ELSE IF hex THEN NoNumber
    ELSE readFloat_done(s, neg, hex, m, m.i - 1, dp, m.underscores)

\* readFloat after the loop over the mantissa: without a point the point
\* stands after the last digit; a hexadecimal digit is four binary ones
readFloat_scanned(s, neg, hex, m) ==
    readFloat_afterMantissa(s, neg, hex, m,
        (IF hex THEN 4 ELSE 1) * (IF m.sawdot THEN m.dp ELSE m.nd))

\* readFloat from byte k on, after the sign: the base prefix 0x when three
\* bytes at least are left, then the mantissa
readFloat_unsigned(s, neg, hex, k) ==
    readFloat_scanned(s, neg, hex,
        readFloat_mantissa(s, IF hex THEN 16 ELSE 10,
            [i |-> IF hex THEN k + 2 ELSE k, sawdot |-> FALSE,
             sawdigits |-> FALSE, nd |-> 0, dp |-> 0, mantissa |-> 0,
             underscores |-> FALSE]))

\* readFloat after the optional sign, the next byte being byte k
readFloat_signed(s, neg, k) ==
    readFloat_unsigned(s, neg,
        k + 2 <= Len(s) /\ At(s, k) = "0" /\ lower(At(s, k + 1)) = "x", k)

\* strconv's readFloat: sign, base prefix, mantissa, exponent.  Mantissas of
\* at most 9 decimal or 7 hexadecimal digits.
readFloat(s) ==
    IF s = "" THEN NoNumber
    ELSE readFloat_signed(s, At(s, 1) = "-",
                          IF At(s, 1) \in {"+", "-"} THEN 2 ELSE 1)

\* the number of decimal digits of a positive integer
RECURSIVE Digits(_)
Digits(n) == IF n < 10 THEN 1 ELSE 1 + Digits(n \div 10)

\* the number of binary digits of a positive integer
RECURSIVE Bits(_)
Bits(n) == IF n < 2 THEN 1 ELSE 1 + Bits(n \div 2)

\* the float64 nearest to the number f, top being the place of its first
\* digit: range is TRUE next to an infinity when the number is beyond the
\* largest float64, 1.79769313...e308; a number of at most half the smallest
\* float64, 2.47032822...e-324, is a zero
floatBits_round(f, top, lead) ==
    IF top > 309 \/ (top = 309 /\ lead > 179769313)
       THEN [value |-> Inf(f.neg), range |-> TRUE]
    ELSE IF top < -323 \/ (top = -323 /\ lead <= 247032822)
       THEN [value |-> Float(f.neg, 0, 0), range |-> FALSE]
    ELSE [value |-> f, range |-> FALSE]

\* the float64 nearest to the number f
floatBits_of(f) ==
    IF f.mant = 0 THEN [value |-> f, range |-> FALSE]
    ELSE floatBits_round(f, Digits(f.mant) + f.exp,
                         f.mant * 10 ^ (9 - Digits(f.mant)))

\* the float64 nearest to (-1)^neg * mantissa * 10^exp
floatBits(neg, mantissa, exp) == floatBits_of(Float(neg, mantissa, exp))

\* the float64 nearest to (-1)^neg * mantissa * 2^exp, likewise; between the
\* two ends of the range, binary exponents from -13 on and values below 2^31
atofHex(neg, mantissa, exp) ==
    IF mantissa = 0 THEN [value |-> Float(neg, 0, 0), range |-> FALSE]
    ELSE IF Bits(mantissa) + exp > 1024
        THEN [value |-> Inf(neg), range |-> TRUE]
    ELSE IF Bits(mantissa) + exp < -1074 \/ (mantissa = 1 /\ exp = -1075)
        THEN [value |-> Float(neg, 0, 0), range |-> FALSE]
    ELSE IF exp >= 0
        THEN [value |-> Float(neg, mantissa * 2 ^ exp, 0), range |-> FALSE]
    ELSE [value |-> Float(neg, mantissa * 5 ^ (-exp), exp), range |-> FALSE]

\* atof64 for the number r that readFloat read, converted to the float64 f
atof64_converted(r, f) ==
    [value |-> f.value, n |-> r.n, err |-> IF f.range THEN "range" ELSE ""]

\* atof64 for what readFloat returned
atof64_number(r) ==
    IF ~r.ok THEN [value |-> ZeroFloat, n |-> r.n, err |-> "syntax"]
    ELSE atof64_converted(r, IF r.hex THEN atofHex(r.neg, r.mantissa, r.exp)
                                      ELSE floatBits(r.neg, r.mantissa, r.exp))

\* atof64 for what special returned
atof64_special(s, sp) ==
    IF sp.ok THEN [value |-> sp.value, n |-> sp.n, err |-> ""]
    ELSE atof64_number(readFloat(s))

\* strconv's atof64: a special value, or the number readFloat read; n is the
\* number of bytes that were read, err is "syntax" when there is neither and
\* "range", next to an infinity, when the number is too large
atof64(s) == atof64_special(s, special(s))

\* ParseFloat for what atof64 returned: bytes left over after the number are
\* a syntax error
ParseFloat_checked(s, p) ==
    IF p.n # Len(s) /\ p.err # "syntax"
       THEN [err |-> "syntax", value |-> ZeroFloat]
       ELSE [err |-> p.err, value |-> p.value]

\* strconv.ParseFloat(s, 64)
ParseFloat(s) == ParseFloat_checked(s, atof64(s))

\* the endpoint and the key of the request
BalanceURL(c) ==
    IF c.UseTwoCaptcha
       THEN [host |-> "api.2captcha.com", key |-> c.TwoCaptchaAPIKey]
       ELSE [host |-> "api.ez-captcha.com", key |-> c.EZCaptchaAPIKey]

\* what checkCaptchaBalance returns for an answer: 0 next to every error
checkCaptchaBalance(resp) ==
    IF resp.kind # "body" THEN [balance |-> ZeroFloat, err |-> resp.kind]
    ELSE LET p == ParseFloat(resp.body)
         IN  IF p.err # "" THEN [balance |-> ZeroFloat, err |-> p.err]
             ELSE [balance |-> p.value, err |-> ""]

\* checkCaptchaBalance is not being reported
NoBalanceCheck ==
    [url |-> [host |-> "", key |-> ""],
     resp |-> [kind |-> "none", body |-> ""],
     result |-> [balance |-> ZeroFloat, err |-> ""]]

\* ---- configuration ------------------------------------------------------
ConfigFiles ==
    [ CloudflareAPIToken : StringChoices,
      EZCaptchaAPIKey : StringChoices,
      TwoCaptchaAPIKey : StringChoices,
      RecaptchaSiteKey : StringChoices,
      EmailDomain : StringChoices,
      CloudflareZoneID : StringChoices,
      ForwardToEmail : StringChoices,
      MonsterPromoURL : StringChoices,
      MonsterSubmitURL : StringChoices,
      UseCloudflareEmail : BOOLEAN,
      UseTwoCaptcha : BOOLEAN,
      MaxCaptchaRetries : -1..MaxRetriesBound,
      CaptchaTimeout : TimeoutChoices ]

\* the log.Fatal conditions of validateConfig
ConfigFatal(c) ==
    \/ c.CloudflareAPIToken = ""
    \/ (c.EZCaptchaAPIKey = "" /\ c.TwoCaptchaAPIKey = "")
    \/ c.RecaptchaSiteKey = ""
    \/ c.EmailDomain = ""
    \/ c.CloudflareZoneID = ""
    \/ c.ForwardToEmail = ""
    \/ (c.MonsterPromoURL = "" \/ c.MonsterSubmitURL = "")

\* the defaults validateConfig fills in
ConfigDefaults(c) ==
    [c EXCEPT !.MaxCaptchaRetries =
                  IF @ = 0 THEN DefaultMaxCaptchaRetries ELSE @,
              !.CaptchaTimeout =
                  IF @ = 0 THEN DefaultCaptchaTimeout ELSE @]

Init ==
    /\ config \in ConfigFiles
    /\ pc = "validateConfig"
    /\ mode = "none"
    /\ cycles = 0
    /\ successCount = 0
    /\ totalCount = 0
    /\ rate = NoRate
    /\ answer = ""
    /\ balanceCheck = NoBalanceCheck
    /\ email = ""
    /\ captchaToken = ""
    /\ cfClearance = ""
    /\ err = NoErr
    /\ solveState = "idle"
    /\ taskID = ""
    /\ i = 0
    /\ elapsed = 0
    /\ creates = 0
    /\ polls = 0
    /\ pollErrs = 0
    /\ pollNotReady = 0
    /\ lastResp = NoResp
    /\ submits = <<>>
    /\ addI = 0
    /\ addFailed = 0
    /\ lastSubmit = NoSubmit
    /\ lastResult = [cfClearance |-> "", err |-> NoErr]
    /\ logCalls = 0
    /\ replay = NoReplay

\* ---- main ---------------------------------------------------------------
validateConfig ==
    /\ pc = "validateConfig"
    /\ IF ConfigFatal(config)
          THEN /\ pc' = "fatal"
               /\ UNCHANGED config
          ELSE /\ pc' = "checkCaptchaBalance"
               /\ config' = ConfigDefaults(config)
    /\ UNCHANGED <<runVars, entryVars, solveVars, submitVars>>
    /\ UNCHANGED replay

\* main calls checkCaptchaBalance, prints the balance or the error and goes
\* on to the mode prompt in both cases
main_checkCaptchaBalance ==
    /\ pc = "checkCaptchaBalance"
    /\ \E resp \in BalanceResponses :
          balanceCheck' = [url |-> BalanceURL(config),
                           resp |-> resp,
                           result |-> checkCaptchaBalance(resp)]
    /\ pc' = "selectMode"
    /\ UNCHANGED <<config, mode, cycles, successCount, totalCount, rate, answer,
                   entryVars, solveVars, submitVars>>
    /\ UNCHANGED replay

main_selectMode ==
    /\ pc = "selectMode"
    /\ \E input \in ModeInputs :
          CASE input = "1" -> /\ mode' = "interactive"
                              /\ pc' = "interactiveConfirm"
            [] input = "2" -> /\ mode' = "automatic"
                              /\ pc' = "automaticDelay"
            [] OTHER -> /\ mode' = mode
                        /\ pc' = "exit"
    /\ balanceCheck' = NoBalanceCheck
    /\ UNCHANGED <<config, cycles, successCount, totalCount, rate, answer,
                   entryVars, solveVars, submitVars>>
    /\ UNCHANGED replay

\* ---- prompts -------------------------------------------------------------
\* strings.ToLower on the answers the model enumerates
ToLower(s) == IF s = "Y" THEN "y" ELSE s

\* variant: only the lower-case letter is an affirmative answer
confirmAction_CaseSensitive(input) == input = "y"

confirmAction(input) == ToLower(input) = "y"

\* ---- submitEntry: start and email ---------------------------------------
\* a call of submitEntry: fresh locals, nothing done yet
EnterSubmitEntry ==
    /\ cycles < MaxCycles
    /\ cycles' = cycles + 1
    /\ pc' = "email"
    /\ UNCHANGED <<entryVars, solveVars, submitVars>>

\* the locals of a solver call that has returned
SolverLocalsGone ==
    /\ taskID' = ""
    /\ i' = 0
    /\ elapsed' = 0
    /\ polls' = 0
    /\ pollErrs' = 0
    /\ pollNotReady' = 0
    /\ lastResp' = NoResp

\* submitEntry has returned: its locals and those of its callees are gone
SubmitEntryLocalsGone ==
    /\ email' = ""
    /\ captchaToken' = ""
    /\ cfClearance' = ""
    /\ err' = NoErr
    /\ solveState' = "idle"
    /\ creates' = 0
    /\ SolverLocalsGone
    /\ submits' = <<>>
    /\ addI' = 0
    /\ addFailed' = 0
    /\ lastSubmit' = NoSubmit
    /\ lastResult' = [cfClearance |-> "", err |-> NoErr]
    /\ logCalls' = 0

interactiveMode_Confirm ==
    /\ pc = "interactiveConfirm"
    /\ \E input \in ConfirmInputs :
          IF confirmAction(input)
             THEN /\ EnterSubmitEntry
                  /\ answer' = input
                  /\ UNCHANGED <<config, mode, successCount, totalCount, rate, balanceCheck>>
             ELSE /\ pc' = "exit"
                  /\ answer' = input
                  /\ UNCHANGED <<config, mode, cycles, successCount, totalCount, rate, balanceCheck,
                                 entryVars, solveVars, submitVars>>
    /\ UNCHANGED replay

interactiveMode_AfterEntry ==
    /\ pc = "returned"
    /\ mode = "interactive"
    /\ pc' = "interactiveAgain"
    /\ SubmitEntryLocalsGone
    /\ UNCHANGED <<config, runVars>>
    /\ UNCHANGED replay

interactiveMode_Again ==
    /\ pc = "interactiveAgain"
    /\ \E input \in ConfirmInputs :
          /\ pc' = IF confirmAction(input) THEN "interactiveConfirm" ELSE "exit"
          /\ answer' = input
    /\ UNCHANGED <<config, mode, cycles, successCount, totalCount, rate, balanceCheck,
                   entryVars, solveVars, submitVars>>
    /\ UNCHANGED replay

\* getUserInputInt returns once a number was typed, then the loop starts
automaticMode_Start ==
    /\ pc = "automaticDelay"
    /\ EnterSubmitEntry
    /\ UNCHANGED <<config, mode, successCount, totalCount, rate, balanceCheck, answer>>
    /\ UNCHANGED replay

\* variant: every cycle is counted as a success
automaticMode_AfterEntry_CountsAll ==
    /\ pc = "returned"
    /\ mode = "automatic"
    /\ totalCount' = totalCount + 1
    /\ successCount' = successCount + 1
    /\ pc' = "automaticSleep"
    /\ rate' = SuccessRate(successCount', totalCount')
    /\ SubmitEntryLocalsGone
    /\ UNCHANGED <<config, mode, cycles, answer, balanceCheck>>
    /\ UNCHANGED replay

\* variant: the loop returns when a cycle failed
automaticMode_AfterEntry_StopsOnError ==
    /\ pc = "returned"
    /\ mode = "automatic"
    /\ totalCount' = totalCount + 1
    /\ successCount' = IF err # NoErr THEN successCount ELSE successCount + 1
    /\ pc' = IF err # NoErr THEN "exit" ELSE "automaticSleep"
    /\ rate' = SuccessRate(successCount', totalCount')
    /\ SubmitEntryLocalsGone
    /\ UNCHANGED <<config, mode, cycles, answer, balanceCheck>>
    /\ UNCHANGED replay

automaticMode_AfterEntry ==
    /\ pc = "returned"
    /\ mode = "automatic"
    /\ totalCount' = totalCount + 1
    /\ successCount' = IF err # NoErr THEN successCount ELSE successCount + 1
    /\ pc' = "automaticSleep"
    /\ rate' = SuccessRate(successCount', totalCount')
    /\ SubmitEntryLocalsGone
    /\ UNCHANGED <<config, mode, cycles, answer, balanceCheck>>
    /\ UNCHANGED replay

automaticMode_Sleep ==
    /\ pc = "automaticSleep"
    /\ EnterSubmitEntry
    /\ UNCHANGED <<config, mode, successCount, totalCount, rate, balanceCheck, answer>>
    /\ UNCHANGED replay

\* variant: the error of createCloudflareEmailAlias does not end the cycle
submitEntry_Email_ErrorIgnored ==
    /\ pc = "email"
    /\ IF config.UseCloudflareEmail
          THEN \E ok \in BOOLEAN :
                  IF ok THEN /\ email' = AliasEmail
                             /\ err' = err
                             /\ pc' = "solveCaptcha"
                        ELSE /\ email' = email
                             /\ err' = MkErr("email", "alias", 0)
                             /\ pc' = "solveCaptcha"
          ELSE \E e \in UserEmails :
                  /\ email' = e
                  /\ err' = err
                  /\ pc' = "solveCaptcha"
    /\ answer' = ""
    /\ UNCHANGED <<config, mode, cycles, successCount, totalCount, rate, balanceCheck,
                   captchaToken, cfClearance, solveVars, submitVars>>
    /\ UNCHANGED replay

submitEntry_Email ==
    /\ pc = "email"
    /\ IF config.UseCloudflareEmail
          THEN \E ok \in BOOLEAN :
                  IF ok THEN /\ email' = AliasEmail
                             /\ err' = err
                             /\ pc' = "solveCaptcha"
                        ELSE /\ email' = email
                             /\ err' = MkErr("email", "alias", 0)
                             /\ pc' = "returned"
          ELSE \E e \in UserEmails :
                  /\ email' = e
                  /\ err' = err
                  /\ pc' = "solveCaptcha"
    /\ answer' = ""
    /\ UNCHANGED <<config, mode, cycles, successCount, totalCount, rate, balanceCheck,
                   captchaToken, cfClearance, solveVars, submitVars>>
    /\ UNCHANGED replay

\* ---- one solve under both providers ----------------------------------------
\* the createTask call of a solve: recorded is whether the task was created;
\* in the replay the call has the recorded outcome
Replay_Create ==
    CASE replay.phase = "record" ->
            replay' = [replay EXCEPT !.created = (solveState' # "providererr")]
      [] replay.phase = "replay" ->
            /\ (solveState' # "providererr") = replay.created
            /\ UNCHANGED replay
      [] OTHER -> UNCHANGED replay

\* a getTaskResult call of a solve: recorded are the answer and the time the
\* call took; in the replay the call gets the next recorded answer after the
\* recorded time
Replay_Poll ==
    CASE replay.phase = "record" ->
            replay' = [replay EXCEPT !.answers =
                          Append(@, [resp |-> lastResp',
                                     lat |-> elapsed' - elapsed - PollSleepSeconds])]
      [] replay.phase = "replay" ->
            /\ replay.at <= Len(replay.answers)
            /\ lastResp' = replay.answers[replay.at].resp
            /\ elapsed' - elapsed - PollSleepSeconds = replay.answers[replay.at].lat
            /\ replay' = [replay EXCEPT !.at = @ + 1]
      [] OTHER -> UNCHANGED replay

\* ---- the solvers --------------------------------------------------------
\* json.Decode of the createTask answer into struct{ TaskID string }
DecodeCreateEZ(resp) ==
    IF resp.kind # "json" THEN [err |-> TRUE, TaskID |-> ""]
    ELSE IF resp.idType = "number" THEN [err |-> TRUE, TaskID |-> ""]
    ELSE IF resp.idType = "string" THEN [err |-> FALSE, TaskID |-> resp.id]
    ELSE [err |-> FALSE, TaskID |-> ""]

\* json.Decode of the createTask answer into struct{ TaskID int }
DecodeCreate2Captcha(resp) ==
    IF resp.kind # "json" THEN [err |-> TRUE, TaskID |-> "0"]
    ELSE IF resp.idType = "string" THEN [err |-> TRUE, TaskID |-> "0"]
    ELSE IF resp.idType = "number" THEN [err |-> FALSE, TaskID |-> resp.id]
    ELSE [err |-> FALSE, TaskID |-> "0"]

getEZCaptchaTaskResult(resp) ==
    IF resp.kind # "json"
       THEN [err |-> TRUE, Status |-> "", GRecaptchaResponse |-> ""]
       ELSE [err |-> FALSE, Status |-> resp.status, GRecaptchaResponse |-> resp.token]

get2CaptchaTaskResult(resp) ==
    IF resp.kind # "json"
       THEN [err |-> TRUE, Status |-> "", GRecaptchaResponse |-> ""]
       ELSE [err |-> FALSE, Status |-> resp.status, GRecaptchaResponse |-> resp.token]

\* the loop condition of solveCaptchaWithEZCaptcha
EZLoopCondition(idx, max) == idx < max

\* variant: every status but "processing" is taken for a solution
EZIteration_AnyFinalStatus(result, since, timeout) ==
    IF result.err THEN "continue"
    ELSE IF result.Status # "processing" THEN "return"
    ELSE IF since > timeout THEN "timeout"
    ELSE "continue"

\* variant: the timeout is tested before the status
EZIteration_TimeoutFirst(result, since, timeout) ==
    IF result.err THEN "continue"
    ELSE IF since > timeout THEN "timeout"
    ELSE IF result.Status = "ready" THEN "return"
    ELSE "continue"

\* what one iteration of solveCaptchaWithEZCaptcha does with the result of
\* getEZCaptchaTaskResult, since seconds after startTime: "continue" with the
\* next attempt, "return" the token, or fail with "timeout"
EZIteration(result, since, timeout) ==
    IF result.err THEN "continue"
    ELSE IF result.Status = "ready" THEN "return"
    ELSE IF since > timeout THEN "timeout"
    ELSE "continue"

\* the loop condition of solveCaptchaWith2Captcha
TwoLoopCondition(idx, max) == idx < max

\* variant: the 2Captcha loop lacks the timeout test
TwoIteration_NoTimeout(result, since, timeout) ==
    IF result.err THEN "continue"
    ELSE IF result.Status = "ready" THEN "return"
    ELSE "continue"

\* what one iteration of solveCaptchaWith2Captcha does with the result of
\* get2CaptchaTaskResult
TwoIteration(result, since, timeout) ==
    IF result.err THEN "continue"
    ELSE IF result.Status = "ready" THEN "return"
    ELSE IF since > timeout THEN "timeout"
    ELSE "continue"

\* variant: submitEntry does not test the solver's error and goes on
SolverFails_ErrorIgnored(state, cause) ==
    /\ solveState' = state
    /\ err' = err
    /\ pc' = "submitPromoEntry"
    /\ captchaToken' = ""

\* the solver returns an error to submitEntry, which returns it wrapped
SolverFails(state, cause) ==
    /\ solveState' = state
    /\ err' = MkErr("captcha", cause, 0)
    /\ pc' = "returned"
    /\ captchaToken' = captchaToken

\* variant: the returned token is assigned to a shadowed variable
SolverReturns_TokenShadowed(token) ==
    /\ solveState' = "solved"
    /\ captchaToken' = captchaToken
    /\ err' = err
    /\ pc' = "submitPromoEntry"

\* the solver returns a token to submitEntry
SolverReturns(token) ==
    /\ solveState' = "solved"
    /\ captchaToken' = token
    /\ err' = err
    /\ pc' = "submitPromoEntry"

\* createTask and the first evaluation of the loop condition
solveCaptchaWithEZCaptcha_Create ==
    /\ pc = "solveCaptcha"
    /\ ~config.UseTwoCaptcha
    /\ creates' = creates + 1
    /\ \E resp \in CreateResponses :
          LET r == DecodeCreateEZ(resp) IN
          IF r.err
             THEN /\ SolverFails("providererr", "provider")
                  /\ taskID' = taskID
             ELSE /\ taskID' = r.TaskID
                  /\ IF EZLoopCondition(0, config.MaxCaptchaRetries)
                        THEN /\ solveState' = "polling"
                             /\ pc' = "poll"
                             /\ UNCHANGED <<err, captchaToken>>
                        ELSE SolverFails("exhausted", "exhausted")
    /\ UNCHANGED <<config, runVars, email, cfClearance, i, elapsed, polls,
                   pollErrs, pollNotReady, lastResp, submitVars>>
    /\ Replay_Create

\* one iteration of the polling loop, up to the next evaluation of the loop
\* condition
solveCaptchaWithEZCaptcha_Poll ==
    /\ pc = "poll"
    /\ ~config.UseTwoCaptcha
    /\ \E lat \in Latencies, resp \in PollResponses :
          LET result == getEZCaptchaTaskResult(resp)
              since == elapsed + PollSleepSeconds + lat
              step == EZIteration(result, since, config.CaptchaTimeout)
              next ==
                  /\ i' = i + 1
                  /\ IF EZLoopCondition(i + 1, config.MaxCaptchaRetries)
                        THEN UNCHANGED <<solveState, err, pc, captchaToken>>
                        ELSE SolverFails("exhausted", "exhausted")
          IN
          /\ elapsed' = since
          /\ polls' = polls + 1
          /\ lastResp' = resp
          /\ pollErrs' = IF resp.kind # "json" THEN pollErrs + 1 ELSE pollErrs
          /\ pollNotReady' = IF resp.kind = "json" /\ resp.status # "ready"
                                THEN pollNotReady + 1 ELSE pollNotReady
          /\ CASE step = "return" -> /\ SolverReturns(result.GRecaptchaResponse)
                                     /\ i' = i
               [] step = "timeout" -> /\ SolverFails("timedout", "timeout")
                                      /\ i' = i
               [] OTHER -> next
    /\ UNCHANGED <<config, runVars, email, cfClearance, taskID, creates, submitVars>>
    /\ Replay_Poll

solveCaptchaWith2Captcha_Create ==
    /\ pc = "solveCaptcha"
    /\ config.UseTwoCaptcha
    /\ creates' = creates + 1
    /\ \E resp \in CreateResponses :
          LET r == DecodeCreate2Captcha(resp) IN
          IF r.err
             THEN /\ SolverFails("providererr", "provider")
                  /\ taskID' = taskID
             ELSE /\ taskID' = r.TaskID
                  /\ IF TwoLoopCondition(0, config.MaxCaptchaRetries)
                        THEN /\ solveState' = "polling"
                             /\ pc' = "poll"
                             /\ UNCHANGED <<err, captchaToken>>
                        ELSE SolverFails("exhausted", "exhausted")
    /\ UNCHANGED <<config, runVars, email, cfClearance, i, elapsed, polls,
                   pollErrs, pollNotReady, lastResp, submitVars>>
    /\ Replay_Create

solveCaptchaWith2Captcha_Poll ==
    /\ pc = "poll"
    /\ config.UseTwoCaptcha
    /\ \E lat \in Latencies, resp \in PollResponses :
          LET result == get2CaptchaTaskResult(resp)
              since == elapsed + PollSleepSeconds + lat
              step == TwoIteration(result, since, config.CaptchaTimeout)
              next ==
                  /\ i' = i + 1
                  /\ IF TwoLoopCondition(i + 1, config.MaxCaptchaRetries)
                        THEN UNCHANGED <<solveState, err, pc, captchaToken>>
                        ELSE SolverFails("exhausted", "exhausted")
          IN
          /\ elapsed' = since
          /\ polls' = polls + 1
          /\ lastResp' = resp
          /\ pollErrs' = IF resp.kind # "json" THEN pollErrs + 1 ELSE pollErrs
          /\ pollNotReady' = IF resp.kind = "json" /\ resp.status # "ready"
                                THEN pollNotReady + 1 ELSE pollNotReady
          /\ CASE step = "return" -> /\ SolverReturns(result.GRecaptchaResponse)
                                     /\ i' = i
               [] step = "timeout" -> /\ SolverFails("timedout", "timeout")
                                      /\ i' = i
               [] OTHER -> next
    /\ UNCHANGED <<config, runVars, email, cfClearance, taskID, creates, submitVars>>
    /\ Replay_Poll

\* ---- submissions --------------------------------------------------------
\* variant: the status test has no upper bound
PrimaryStatusAccepted_NoUpperBound(code) == code >= StatusOK

\* the status test of submitPromoEntry
PrimaryStatusAccepted(code) == code = StatusOK

\* the status test of submitPromoEntryWithCookie
AdditionalStatusAccepted(code) == code = StatusOK

\* variant: the cookie loop has no break, the last cf_clearance cookie wins
RECURSIVE ScanCookies_NoBreak(_)
ScanCookies_NoBreak(cookies) ==
    IF cookies = <<>> THEN ""
    ELSE LET rest == ScanCookies_NoBreak(Tail(cookies)) IN
         IF rest # "" THEN rest
         ELSE IF Head(cookies).Name = "cf_clearance" THEN Head(cookies).Value
         ELSE ""

\* the cookie loop of submitPromoEntry: the value of the first cookie named
\* cf_clearance, "" when there is none
RECURSIVE ScanCookies(_)
ScanCookies(cookies) ==
    IF cookies = <<>> THEN ""
    ELSE IF Head(cookies).Name = "cf_clearance" THEN Head(cookies).Value
    ELSE ScanCookies(Tail(cookies))

\* what submitPromoEntry returns for an answer of the endpoint
submitPromoEntry(resp) ==
    IF resp.kind = "clienterr"
       THEN [cfClearance |-> "", err |-> MkErr("submission", "transport", 0)]
    ELSE IF resp.kind = "readerr"
       THEN [cfClearance |-> "", err |-> MkErr("submission", "body", 0)]
    ELSE IF ~PrimaryStatusAccepted(resp.StatusCode)
       THEN [cfClearance |-> "", err |-> MkErr("submission", "status", resp.StatusCode)]
    ELSE [cfClearance |-> ScanCookies(resp.cookies), err |-> NoErr]

\* what submitPromoEntryWithCookie returns for an answer of the endpoint
submitPromoEntryWithCookie(resp) ==
    IF resp.kind = "clienterr"
       THEN [cfClearance |-> "", err |-> MkErr("submission", "transport", 0)]
    ELSE IF resp.kind = "readerr"
       THEN [cfClearance |-> "", err |-> MkErr("submission", "body", 0)]
    ELSE IF ~AdditionalStatusAccepted(resp.StatusCode)
       THEN [cfClearance |-> "", err |-> MkErr("submission", "status", resp.StatusCode)]
    ELSE [cfClearance |-> "", err |-> NoErr]

\* submitEntry decides on additional entries
WantsAdditional(clearance) == clearance # ""

\* variant: the additional-entries loop runs once more
AdditionalLoopCondition_OffByOne(idx) == idx <= AdditionalEntries

\* the loop condition of the additional-entries loop
AdditionalLoopCondition(idx) == idx < AdditionalEntries

\* the call submitPromoEntry(email, captchaToken) and what submitEntry does
\* with its result, up to the first evaluation of the additional-entries loop
submitEntry_Primary ==
    /\ pc = "submitPromoEntry"
    /\ SolverLocalsGone
    /\ submits' = Append(submits, [fn |-> "submitPromoEntry", email |-> email,
                                   captchaToken |-> captchaToken, cfClearance |-> ""])
    /\ \E resp \in SubmitResponses :
          LET r == submitPromoEntry(resp) IN
          /\ lastSubmit' = resp
          /\ lastResult' = r
          /\ IF r.err # NoErr
                THEN /\ err' = r.err
                     /\ pc' = "returned"
                     /\ cfClearance' = cfClearance
                ELSE /\ err' = err
                     /\ cfClearance' = r.cfClearance
                     /\ pc' = IF WantsAdditional(r.cfClearance) /\ AdditionalLoopCondition(0)
                                 THEN "additional" ELSE "logSubmission"
    /\ UNCHANGED <<config, runVars, email, captchaToken, solveState, creates,
                   addI, addFailed, logCalls>>
    /\ UNCHANGED replay

\* one iteration of the additional-entries loop
submitEntry_Additional ==
    /\ pc = "additional"
    /\ submits' = Append(submits, [fn |-> "submitPromoEntryWithCookie", email |-> email,
                                   captchaToken |-> captchaToken, cfClearance |-> cfClearance])
    /\ \E resp \in SecondaryResponses :
          LET r == submitPromoEntryWithCookie(resp) IN
          /\ lastSubmit' = resp
          /\ lastResult' = r
          /\ addFailed' = IF r.err # NoErr THEN addFailed + 1 ELSE addFailed
    /\ addI' = addI + 1
    /\ pc' = IF AdditionalLoopCondition(addI + 1) THEN "additional" ELSE "logSubmission"
    /\ UNCHANGED <<config, runVars, entryVars, solveVars, logCalls>>
    /\ UNCHANGED replay

\* logSubmission(email) and return nil
submitEntry_Log ==
    /\ pc = "logSubmission"
    /\ logCalls' = logCalls + 1
    /\ err' = NoErr
    /\ pc' = "returned"
    /\ UNCHANGED <<config, runVars, email, captchaToken, cfClearance, solveVars,
                   submits, addI, addFailed, lastSubmit, lastResult>>
    /\ UNCHANGED replay

Next ==
    \/ validateConfig
    \/ main_checkCaptchaBalance
    \/ main_selectMode
    \/ interactiveMode_Confirm
    \/ interactiveMode_AfterEntry
    \/ interactiveMode_Again
    \/ automaticMode_Start
    \/ automaticMode_AfterEntry
    \/ automaticMode_Sleep
    \/ submitEntry_Email
    \/ solveCaptchaWithEZCaptcha_Create
    \/ solveCaptchaWithEZCaptcha_Poll
    \/ solveCaptchaWith2Captcha_Create
    \/ solveCaptchaWith2Captcha_Poll
    \/ submitEntry_Primary
    \/ submitEntry_Additional
    \/ submitEntry_Log

Spec == Init /\ [][Next]_vars

\* ---- automatic mode in the middle of a run --------------------------------
\* cycles automaticMode has counted before the cycle that is explored
MaxPriorCycles == 9

\* the configurations validateConfig lets through, with its defaults
ValidatedConfigs == {ConfigDefaults(c) : c \in {f \in ConfigFiles : ~ConfigFatal(f)}}

\* of these, the ones with every string set and one poll per solve
AutoConfigs ==
    {c \in ValidatedConfigs :
        /\ c.EZCaptchaAPIKey # "" /\ c.TwoCaptchaAPIKey # ""
        /\ c.MaxCaptchaRetries = 1
        /\ c.CaptchaTimeout # DefaultCaptchaTimeout}

\* automaticMode at the top of its loop: before the first cycle, or asleep
\* after totalCount cycles of which successCount returned nil
AutoInit ==
    /\ config \in AutoConfigs
    /\ mode = "automatic"
    /\ totalCount \in 0..MaxPriorCycles
    /\ successCount \in 0..totalCount
    /\ rate = IF totalCount = 0 THEN NoRate ELSE SuccessRate(successCount, totalCount)
    /\ pc = IF totalCount = 0 THEN "automaticDelay" ELSE "automaticSleep"
    /\ cycles = MaxCycles - 1
    /\ answer = ""
    /\ balanceCheck = NoBalanceCheck
    /\ email = ""
    /\ captchaToken = ""
    /\ cfClearance = ""
    /\ err = NoErr
    /\ solveState = "idle"
    /\ taskID = ""
    /\ i = 0
    /\ elapsed = 0
    /\ creates = 0
    /\ polls = 0
    /\ pollErrs = 0
    /\ pollNotReady = 0
    /\ lastResp = NoResp
    /\ submits = <<>>
    /\ addI = 0
    /\ addFailed = 0
    /\ lastSubmit = NoSubmit
    /\ lastResult = [cfClearance |-> "", err |-> NoErr]
    /\ logCalls = 0
    /\ replay = NoReplay

AutoNext ==
    \/ automaticMode_Start
    \/ automaticMode_AfterEntry
    \/ automaticMode_Sleep
    \/ submitEntry_Email
    \/ solveCaptchaWithEZCaptcha_Create
    \/ solveCaptchaWithEZCaptcha_Poll
    \/ solveCaptchaWith2Captcha_Create
    \/ solveCaptchaWith2Captcha_Poll
    \/ submitEntry_Primary
    \/ submitEntry_Additional
    \/ submitEntry_Log

AutoSpec == AutoInit /\ [][AutoNext]_vars

\* ---- one solve under both providers: the run -------------------------------
\* max_captcha_retries of the compared solves: -1 and 1..MaxPairRetries
MaxPairRetries == 3

\* validated configurations with every string set and EZ-Captcha selected,
\* under each max_captcha_retries
PairConfigs ==
    {[c EXCEPT !.MaxCaptchaRetries = m] :
        c \in {v \in ValidatedConfigs :
                  /\ v.EZCaptchaAPIKey # "" /\ v.TwoCaptchaAPIKey # ""
                  /\ ~v.UseTwoCaptcha
                  /\ ~v.UseCloudflareEmail},
        m \in {-1} \cup 1..MaxPairRetries}

\* submitEntry of a first interactive cycle, about to call the solver
PairInit ==
    /\ config \in PairConfigs
    /\ pc = "solveCaptcha"
    /\ mode = "interactive"
    /\ cycles = 1
    /\ successCount = 0
    /\ totalCount = 0
    /\ rate = NoRate
    /\ answer = ""
    /\ balanceCheck = NoBalanceCheck
    /\ email \in UserEmails
    /\ captchaToken = ""
    /\ cfClearance = ""
    /\ err = NoErr
    /\ solveState = "idle"
    /\ taskID = ""
    /\ i = 0
    /\ elapsed = 0
    /\ creates = 0
    /\ polls = 0
    /\ pollErrs = 0
    /\ pollNotReady = 0
    /\ lastResp = NoResp
    /\ submits = <<>>
    /\ addI = 0
    /\ addFailed = 0
    /\ lastSubmit = NoSubmit
    /\ lastResult = [cfClearance |-> "", err |-> NoErr]
    /\ logCalls = 0
    /\ replay = [NoReplay EXCEPT !.phase = "record"]

\* the solver has returned: its result is kept, and the same call of
\* submitEntry is taken up again with use_2captcha set, so that the branch
\* on config.UseTwoCaptcha calls solveCaptchaWith2Captcha
Replay_Switch ==
    /\ replay.phase = "record"
    /\ pc \in {"submitPromoEntry", "returned"}
    /\ replay' = [replay EXCEPT !.phase = "replay",
                                !.first = [polls |-> polls,
                                           solveState |-> solveState,
                                           captchaToken |-> captchaToken,
                                           err |-> err,
                                           elapsed |-> elapsed]]
    /\ config' = [config EXCEPT !.UseTwoCaptcha = TRUE]
    /\ pc' = "solveCaptcha"
    /\ captchaToken' = ""
    /\ err' = NoErr
    /\ solveState' = "idle"
    /\ creates' = 0
    /\ SolverLocalsGone
    /\ UNCHANGED <<runVars, email, cfClearance, submits, addI, addFailed,
                   lastSubmit, lastResult, logCalls>>

PairNext ==
    \/ solveCaptchaWithEZCaptcha_Create
    \/ solveCaptchaWithEZCaptcha_Poll
    \/ Replay_Switch
    \/ solveCaptchaWith2Captcha_Create
    \/ solveCaptchaWith2Captcha_Poll

PairSpec == PairInit /\ [][PairNext]_vars

TypeOK ==
    /\ pc \in {"validateConfig", "fatal", "checkCaptchaBalance", "selectMode", "exit",
               "interactiveConfirm", "interactiveAgain", "automaticDelay",
               "automaticSleep", "email", "solveCaptcha", "poll", "submitPromoEntry",
               "additional", "logSubmission", "returned"}
    /\ solveState \in {"idle", "polling", "solved", "timedout", "exhausted", "providererr"}
    /\ cycles \in 0..MaxCycles
    /\ polls \in Nat /\ i \in Nat

\* ---- properties ----------------------------------------------------------
\* a solver call has returned and submitEntry has not gone on yet
SolverJustReturned ==
    \/ pc = "submitPromoEntry"
    \/ (pc = "returned" /\ err.tag = "captcha")

\* a step that makes a getTaskResult call
PollStep == polls' = polls + 1

\* C1: when createTask succeeded, every poll answered with a status other than
\* "ready" and the elapsed time never exceeded captchaTimeout, the solver made
\* exactly maxRetries polls and returned the retries-exhausted error.
C1_AllPendingExhausts ==
    ( /\ SolverJustReturned
      /\ solveState # "providererr"
      /\ pollNotReady = polls
      /\ elapsed <= config.CaptchaTimeout )
    => ( /\ polls = config.MaxCaptchaRetries
         /\ solveState = "exhausted"
         /\ err = MkErr("captcha", "exhausted", 0) )

\* C2: the solver returns success only from a poll that answered "ready"; it
\* then returns the token of that answer, that poll is the k-th call after k-1
\* calls that were not ready or failed, k <= maxRetries, and no poll follows.
C2_ReadyReturnsToken ==
    /\ [](solveState = "solved" /\ pc = "submitPromoEntry"
            => /\ lastResp.kind = "json"
               /\ lastResp.status = "ready"
               /\ captchaToken = lastResp.token
               /\ polls = i + 1
               /\ pollErrs + pollNotReady = polls - 1
               /\ polls <= config.MaxCaptchaRetries)
    /\ [][ /\ (PollStep /\ lastResp'.status = "ready"
                 => solveState' = "solved" /\ captchaToken' = lastResp'.token)
           /\ (solveState' = "solved" /\ solveState # "solved"
                 => PollStep /\ lastResp'.status = "ready")
           /\ (solveState = "solved" => ~PollStep) ]_vars

C2_Witness ==
    /\ pc = "submitPromoEntry"
    /\ solveState = "solved"
    /\ polls = 3
    /\ pollNotReady = 2
    /\ captchaToken = "T2"

\* C3: after a poll that did not yield a solution, once the elapsed time
\* exceeds captchaTimeout the solver has failed with the timeout error, whether
\* the polls answered pending or failed: it is neither still polling nor
\* exhausted.
C3_TimeoutWhateverThePolls ==
    (polls > 0 /\ solveState # "solved" /\ elapsed > config.CaptchaTimeout)
    => (solveState = "timedout" /\ err = MkErr("captcha", "timeout", 0))

\* C4: a failed poll never ends the solver by itself: it uses up one attempt
\* and the loop goes on while attempts remain; the polls of one solve never
\* exceed maxRetries; a ready poll after failed polls yields success.
C4_PollErrorsAbsorbed ==
    /\ [](solveState \in {"polling", "solved", "timedout", "exhausted"}
            => polls <= config.MaxCaptchaRetries)
    /\ [][ /\ (PollStep /\ lastResp'.kind # "json"
                 => /\ i' = i + 1
                    /\ solveState' \in {"polling", "exhausted"}
                    /\ (i + 1 < config.MaxCaptchaRetries
                          => solveState' = "polling" /\ pc' = "poll")
                    /\ (i + 1 >= config.MaxCaptchaRetries
                          => /\ solveState' = "exhausted"
                             /\ err' = MkErr("captcha", "exhausted", 0)))
           /\ (PollStep /\ pollErrs > 0 /\ lastResp'.status = "ready"
                 => solveState' = "solved" /\ pc' = "submitPromoEntry") ]_vars

\* C5: a poll answer with status "failed" ends the polling loop at that
\* attempt with a failure.
C5_FailedStatusIsTerminal ==
    (lastResp.kind = "json" /\ lastResp.status = "failed")
    => (pc = "returned" /\ err.tag = "captcha")

\* the zero value of the provider's TaskID field
ZeroTaskID == IF config.UseTwoCaptcha THEN "0" ELSE ""

\* C6: polling is only entered with a task identifier: a createTask answer
\* without one makes the solver fail before any poll.
C6_NoPollWithoutTaskID ==
    (solveState = "polling" \/ polls > 0) => taskID # ZeroTaskID

\* C7: a submission answered by the endpoint succeeds exactly when the status
\* is in 200..299, and otherwise fails with that status code.
C7_Any2xxAccepted ==
    lastSubmit.kind = "http"
    => IF lastSubmit.StatusCode \in 200..299
          THEN lastResult.err = NoErr
          ELSE lastResult.err = MkErr("submission", "status", lastSubmit.StatusCode)

\* the value of the first cookie named cf_clearance, "" when there is none
FirstClearance(cookies) ==
    LET at == { k \in 1..Len(cookies) : cookies[k].Name = "cf_clearance" } IN
    IF at = {} THEN ""
    ELSE cookies[CHOOSE k \in at : \A j \in at : k <= j].Value

\* C8: after a primary submission answered with status 200 the clearance token
\* of the cycle is the value of the first cf_clearance cookie of the answer,
\* empty when there is none, and the call returned no error.
C8_ClearanceFromFirstCookie ==
    (Len(submits) = 1 /\ lastSubmit.kind = "http" /\ lastSubmit.StatusCode = 200)
    => /\ lastResult.err = NoErr
       /\ err = NoErr
       /\ cfClearance = FirstClearance(lastSubmit.cookies)
       /\ lastResult.cfClearance = cfClearance
       /\ pc \notin {"submitPromoEntry", "email", "solveCaptcha", "poll"}

C8_Witness ==
    /\ Len(submits) = 1
    /\ lastSubmit.kind = "http"
    /\ lastSubmit.StatusCode = 200
    /\ lastSubmit.cookies = << [Name |-> "cf_clearance", Value |-> "c2"],
                               [Name |-> "cf_clearance", Value |-> "c1"] >>
    /\ cfClearance = "c2"

\* the first submission call of a cycle is made
PrimaryStep == submits = <<>> /\ submits' # <<>>

\* C9: when the primary submission fails (no answer, or an answer with a
\* status outside 200..299) the cycle returns the submission error, makes no
\* additional submission and does not call logSubmission.
C9_PrimaryFailureAborts ==
    /\ [][ PrimaryStep /\ (lastSubmit'.kind # "http"
                            \/ lastSubmit'.StatusCode \notin 200..299)
             => /\ pc' = "returned"
                /\ err'.tag = "submission"
                /\ (lastSubmit'.kind = "http"
                      => err' = MkErr("submission", "status", lastSubmit'.StatusCode)) ]_vars
    /\ [](err.tag = "submission"
            => /\ Len(submits) = 1
               /\ submits[1].fn = "submitPromoEntry"
               /\ addI = 0
               /\ logCalls = 0
               /\ pc \notin {"additional", "logSubmission"})

C9_Witness ==
    /\ pc = "returned"
    /\ err = MkErr("submission", "status", 403)
    /\ Len(submits) = 1
    /\ logCalls = 0

\* C10: a cycle whose primary submission succeeded with a non-empty clearance
\* token makes exactly 5 additional submissions, each with that clearance
\* token, however many of them fail, and returns success; with an empty
\* clearance token it makes none.
C10_FiveAdditionalEntries ==
    /\ (pc \in {"logSubmission", "returned"} /\ submits # <<>> /\ err.tag # "submission")
       => /\ err = NoErr
          /\ IF cfClearance # ""
                THEN /\ Len(submits) = 1 + AdditionalEntries
                     /\ \A k \in 2..Len(submits) :
                           /\ submits[k].fn = "submitPromoEntryWithCookie"
                           /\ submits[k].cfClearance = cfClearance
                ELSE Len(submits) = 1
          /\ addFailed <= Len(submits) - 1
    /\ (pc = "additional" => cfClearance # "" /\ Len(submits) = 1 + addI)

C10_Witness ==
    /\ pc = "returned"
    /\ err = NoErr
    /\ cfClearance = "c1"
    /\ Len(submits) = 6
    /\ addFailed = 5
    /\ logCalls = 1

\* the solver has returned an error
SolverFailed == solveState \in {"providererr", "timedout", "exhausted"}

\* C11: when the solver fails (createTask error, timeout or retries exhausted)
\* the cycle returns a captcha error at once: no submission call of either
\* kind and no logSubmission call is made in that cycle.
C11_SolverFailureAborts ==
    SolverFailed
    => /\ pc = "returned"
       /\ err.tag = "captcha"
       /\ err.cause = (IF solveState = "providererr" THEN "provider"
                       ELSE IF solveState = "timedout" THEN "timeout" ELSE "exhausted")
       /\ submits = <<>>
       /\ addI = 0
       /\ logCalls = 0

C11_Witness ==
    /\ pc = "returned"
    /\ solveState = "timedout"
    /\ polls = 2
    /\ submits = <<>>
    /\ logCalls = 0

\* the primary submission calls among the submission calls of the cycle
PrimaryCalls == SelectSeq(submits, LAMBDA c : c.fn = "submitPromoEntry")

\* C12: in every cycle there is at most one createTask call and at most one
\* primary submission; the primary submission is made only after the solver
\* of the same cycle returned a token, and it carries the token of the "ready"
\* answer that solver received.
C12_PrimaryUsesThisCyclesToken ==
    /\ [](/\ creates <= 1
          /\ Len(PrimaryCalls) <= 1
          /\ (submits # <<>>
                => /\ solveState = "solved"
                   /\ creates = 1
                   /\ submits[1].fn = "submitPromoEntry"
                   /\ submits[1].captchaToken = captchaToken))
    /\ [][ PrimaryStep
             => /\ solveState = "solved"
                /\ creates = 1
                /\ lastResp.kind = "json" /\ lastResp.status = "ready"
                /\ submits'[1].captchaToken = lastResp.token ]_vars

C12_Witness ==
    /\ cycles = 2
    /\ Len(submits) = 1
    /\ submits[1].captchaToken = "T2"
    /\ creates = 1

\* C13: every additional submission carries a CAPTCHA token that no earlier
\* submission call of the cycle carried.
C13_AdditionalTokenFresh ==
    \A k \in 1..Len(submits) :
       \A j \in 1..(k - 1) : submits[k].captchaToken # submits[j].captchaToken

\* a cycle is running
InCycle == pc \in {"email", "solveCaptcha", "poll", "submitPromoEntry",
                   "additional", "logSubmission", "returned"}

\* the cycles that have returned to the loop of automaticMode
CompletedCycles == IF InCycle THEN cycles - 1 ELSE cycles

\* C14: in automatic mode totalCount is the number of completed cycles,
\* 0 <= successCount <= totalCount, neither counter ever decreases, and the
\* return of a cycle adds 1 to totalCount and adds 1 to successCount exactly
\* when the cycle reached its end (logSubmission called, nil returned).
C14_RunStats ==
    /\ [](/\ 0 <= successCount
          /\ successCount <= totalCount
          /\ (mode = "automatic" => totalCount = CompletedCycles)
          /\ (mode # "automatic" => totalCount = 0)
          /\ (pc = "returned" => (err = NoErr <=> logCalls = 1)))
    /\ [][ /\ totalCount' >= totalCount
           /\ successCount' >= successCount
           /\ (totalCount' # totalCount \/ successCount' # successCount
                 => pc = "returned" /\ mode = "automatic")
           /\ (pc = "returned" /\ mode = "automatic"
                 => /\ totalCount' = totalCount + 1
                    /\ successCount' = successCount + (IF logCalls = 1 THEN 1 ELSE 0)) ]_vars

C14_Witness ==
    /\ pc = "automaticSleep"
    /\ totalCount = 2
    /\ successCount = 1

\* C16: automatic mode never leaves its loop: whatever a cycle returned, the
\* loop goes to its sleep and from there into the next cycle.
C16_AutomaticNeverStops ==
    /\ [](mode = "automatic" => pc \notin {"exit", "fatal"})
    /\ [][ /\ (mode = "automatic" /\ pc = "returned" => pc' = "automaticSleep")
           /\ (pc = "automaticSleep" => pc' = "email" /\ cycles' = cycles + 1) ]_vars

C16_Witness ==
    /\ mode = "automatic"
    /\ pc = "email"
    /\ cycles = 2
    /\ totalCount = 1
    /\ successCount = 0

\* the API key of the provider the flag selects
SelectedAPIKey ==
    IF config.UseTwoCaptcha THEN config.TwoCaptchaAPIKey ELSE config.EZCaptchaAPIKey

\* C18: once validateConfig let the process continue, the key of the selected
\* provider, the site key and both URLs are non-empty, so no createTask call
\* is made with an empty client key.
C18_SelectedKeyPresent ==
    pc \notin {"validateConfig", "fatal"}
    => /\ SelectedAPIKey # ""
       /\ config.RecaptchaSiteKey # ""
       /\ config.MonsterPromoURL # ""
       /\ config.MonsterSubmitURL # ""

\* C19: a solve by solveCaptchaWith2Captcha that has the createTask outcome,
\* the poll answers and the timings of a solve by solveCaptchaWithEZCaptcha
\* under the same maxRetries and timeout can make every step with them, asks
\* for no answer beyond them, and returns after the same number of polls and
\* the same time with the same result: the same token or the same error.
C19_SolversAgree ==
    replay.phase = "replay"
    => /\ (pc = "solveCaptcha" => ENABLED solveCaptchaWith2Captcha_Create)
       /\ (pc = "poll" => ENABLED solveCaptchaWith2Captcha_Poll)
       /\ (SolverJustReturned
             => /\ replay.at = Len(replay.answers) + 1
                /\ polls = replay.first.polls
                /\ solveState = replay.first.solveState
                /\ captchaToken = replay.first.captchaToken
                /\ err = replay.first.err
                /\ elapsed = replay.first.elapsed)

\* both solvers returned the token of the second answer, after a first
\* getTaskResult call that failed
C19_Witness ==
    /\ replay.phase = "replay"
    /\ config.UseTwoCaptcha
    /\ pc = "submitPromoEntry"
    /\ solveState = "solved"
    /\ replay.first.solveState = "solved"
    /\ polls = 2
    /\ replay.first.polls = 2
    /\ pollErrs = 1
    /\ captchaToken # ""
    /\ captchaToken = replay.first.captchaToken

\* the terminal states of a solve whose task was created
SolveTerminal == {"solved", "timedout", "exhausted"}

\* C20: a solve makes one createTask call and never a second one; once the
\* task is created it polls, every step it takes while polling is a poll that
\* advances the loop index below maxRetries, it ends in exactly one of solved,
\* timedout, exhausted, and no poll follows a terminal state.
C20_SolveStateMachine ==
    /\ [](/\ creates <= 1
          /\ (solveState = "polling"
                => /\ creates = 1
                   /\ pc = "poll"
                   /\ polls = i
                   /\ i < config.MaxCaptchaRetries)
          /\ (solveState \in SolveTerminal
                => creates = 1 /\ pc # "poll" /\ polls <= config.MaxCaptchaRetries))
    /\ [][ /\ (creates' > creates => solveState = "idle" /\ creates = 0)
           /\ (solveState = "idle" => solveState' \in {"idle", "polling", "providererr"})
           /\ (solveState = "polling"
                 => /\ PollStep
                    /\ solveState' \in {"polling"} \cup SolveTerminal
                    /\ (solveState' = "polling" => i' = i + 1))
           /\ (PollStep => solveState = "polling")
           /\ (solveState \in SolveTerminal
                 => solveState' \in {solveState, "idle"} /\ creates' <= creates) ]_vars

\* C15: after every automatic-mode cycle the rate printed is 100 * successCount
\* / totalCount over the cycles so far, to the nearest hundredth (10 cycles
\* with 7 successes print 70.00), and totalCount is at least 1 whenever the
\* rate is computed, so that the quotient is never 0/0, also when the first
\* cycle fails.
C15_SuccessRate ==
    /\ [](/\ (totalCount = 0 => rate = NoRate)
          /\ (totalCount >= 1 =>
                 /\ rate >= 0
                 /\ 2 * (rate * totalCount - 10000 * successCount) <= totalCount
                 /\ 2 * (10000 * successCount - rate * totalCount) <= totalCount)
          /\ (totalCount = 10 /\ successCount = 7 => rate = 7000))
    /\ [][ /\ (totalCount' # totalCount \/ rate' # rate) =>
                 /\ pc = "returned"
                 /\ totalCount' = totalCount + 1
                 /\ totalCount' >= 1
                 /\ rate' # RateNaN
           /\ (mode = "automatic" /\ pc = "returned" /\ totalCount = 0 /\ err # NoErr) =>
                 rate' = 0 ]_vars

\* the tenth cycle of a run has returned with 7 successes in all and 70.00
\* was printed
C15_Witness ==
    /\ pc = "automaticSleep"
    /\ cycles = MaxCycles
    /\ totalCount = 10
    /\ successCount = 7
    /\ rate = 7000

\* the affirmative answers among those the model enumerates
Affirmative == {"y", "Y"}

\* C17: in interactive mode a cycle starts only in the step that answers the
\* "Continue" prompt with y or Y; any other answer to either prompt, the empty
\* line included, ends the mode for good; after each cycle, failed or not, the
\* user is asked again, and an affirmative answer there leads to the
\* "Continue" prompt, not to a cycle.
C17_InteractiveConfirmation ==
    [][ /\ pc = "interactiveConfirm" =>
             /\ answer' \in ConfirmInputs
             /\ IF answer' \in Affirmative
                   THEN pc' = "email" /\ cycles' = cycles + 1
                   ELSE pc' = "exit" /\ cycles' = cycles
        /\ pc = "interactiveAgain" =>
             /\ answer' \in ConfirmInputs
             /\ cycles' = cycles
             /\ pc' = IF answer' \in Affirmative THEN "interactiveConfirm" ELSE "exit"
        /\ (mode = "interactive" /\ cycles' # cycles) =>
             /\ pc = "interactiveConfirm"
             /\ answer' \in Affirmative
        /\ (mode = "interactive" /\ pc = "returned") => pc' = "interactiveAgain"
        /\ pc # "exit" ]_vars

\* the second interactive cycle has started on the answer Y
C17_Witness ==
    /\ mode = "interactive"
    /\ pc = "email"
    /\ cycles = 2
    /\ answer = "Y"


\* a body with a digit in it: a body without one writes no number
HasDigit(b) == \E k \in 1..Len(b) : At(b, k) \in {"0", "1", "2", "3", "4", "5", "6", "7", "8", "9"}

\* a body that is a plain decimal numeral: digits and at most one point, one
\* digit at least
IsNumeral(b) ==
    /\ \A k \in 1..Len(b) :
          At(b, k) \in {"0", "1", "2", "3", "4", "5", "6", "7", "8", "9", "."}
    /\ Cardinality({k \in 1..Len(b) : At(b, k) = "."}) <= 1
    /\ HasDigit(b)

\* the position of the point of a numeral, past its end when it has none
PointAt(b) ==
    IF \E k \in 1..Len(b) : At(b, k) = "."
       THEN CHOOSE k \in 1..Len(b) : At(b, k) = "."
       ELSE Len(b) + 1

\* the number of digits after the point of a numeral
FracDigits(b) == IF PointAt(b) > Len(b) THEN 0 ELSE Len(b) - PointAt(b)

\* 10^FracDigits(b) times the number a numeral denotes: the sum of its digits,
\* each with the weight of its place, over the positions from k on
RECURSIVE PlaceValue(_, _)
PlaceValue(b, k) ==
    IF k > Len(b) THEN 0
    ELSE PlaceValue(b, k + 1) +
         (IF At(b, k) = "." THEN 0
          ELSE LET d == CHOOSE n \in 0..9 : At("0123456789", n + 1) = At(b, k)
               IN  IF k < PointAt(b)
                      THEN d * 10 ^ (FracDigits(b) + PointAt(b) - 1 - k)
                      ELSE d * 10 ^ (FracDigits(b) + PointAt(b) - k))

\* C21: checkCaptchaBalance asks the provider that use_2captcha selects, with
\* that provider's key; for either provider it returns the number written in
\* the body (10.5 for the body "10.5") and no error, and an error when the
\* request or the read failed or the body is not numeric (a body without a
\* single digit writes no number); the call changes nothing of the program's
\* state, and whatever it returned main goes on to the mode prompt, which can
\* be answered.
C21_BalanceCheck ==
    pc = "selectMode" =>
        LET b == balanceCheck.resp.body
            r == balanceCheck.result
        IN  /\ balanceCheck.url.host =
                  (IF config.UseTwoCaptcha THEN "api.2captcha.com"
                                           ELSE "api.ez-captcha.com")
            /\ balanceCheck.url.key =
                  (IF config.UseTwoCaptcha THEN config.TwoCaptchaAPIKey
                                           ELSE config.EZCaptchaAPIKey)
            /\ (balanceCheck.resp.kind # "body" => r.err # "")
            /\ (balanceCheck.resp.kind = "body" /\ ~HasDigit(b) => r.err # "")
            /\ (balanceCheck.resp.kind = "body" /\ IsNumeral(b) =>
                  /\ r.err = ""
                  /\ r.balance.kind = "finite"
                  /\ ~r.balance.neg
                  /\ r.balance.exp + FracDigits(b) >= 0
                  /\ r.balance.mant * 10 ^ (r.balance.exp + FracDigits(b)) =
                         PlaceValue(b, 1)
                  /\ (r.balance.mant = 0 \/ r.balance.mant % 10 # 0))
            /\ (balanceCheck.resp.kind = "body" /\ b = "10.5" =>
                  r = [balance |-> [kind |-> "finite", neg |-> FALSE,
                                    mant |-> 105, exp |-> -1],
                       err |-> ""])
            /\ mode = "none" /\ cycles = 0 /\ successCount = 0 /\ totalCount = 0
            /\ email = "" /\ captchaToken = "" /\ cfClearance = ""
            /\ err = NoErr /\ creates = 0 /\ submits = <<>> /\ logCalls = 0
            /\ ENABLED main_selectMode


\* the step of submitEntry the thread is at: 1 email, 2 solver, 3 primary
\* submission, 4 additional submissions, 5 logging, 6 returned; 0 outside
Phase ==
    CASE pc = "email" -> 1
      [] pc \in {"solveCaptcha", "poll"} -> 2
      [] pc = "submitPromoEntry" -> 3
      [] pc = "additional" -> 4
      [] pc = "logSubmission" -> 5
      [] pc = "returned" -> 6
      [] OTHER -> 0

\* the email step of this cycle has given an address: the alias that was
\* created, or whatever line was typed at the prompt, the empty one included
EmailObtained ==
    IF config.UseCloudflareEmail THEN email = AliasEmail ELSE email \in UserEmails

\* the primary submission of this cycle was made and was accepted
PrimarySucceeded ==
    /\ Len(submits) >= 1
    /\ submits[1].fn = "submitPromoEntry"
    /\ (Len(submits) = 1 =>
           lastSubmit.kind = "http" /\ lastSubmit.StatusCode = StatusOK)

\* C22: within a cycle the steps come one at a time in the order email,
\* solver, primary submission, additional submissions, logging: each remote
\* call and the log entry is made in its own step only and no step is gone
\* back to. The cycle returns nil exactly when the email was obtained, the
\* solver returned a token and the primary submission was accepted; then
\* logSubmission was called exactly once, after all additional submissions.
\* A failed email step returns before any createTask call.
C22_CycleOrder ==
    /\ [][ (Phase \in 1..5) =>
              /\ Phase' >= Phase
              /\ (Phase' = Phase => Phase \in {2, 4})
              /\ (email' # email => Phase = 1)
              /\ (creates' # creates => pc = "solveCaptcha" /\ creates' = 1)
              /\ (polls' > polls => pc = "poll")
              /\ (submits' # submits =>
                     /\ Len(submits') = Len(submits) + 1
                     /\ IF Len(submits) = 0
                           THEN Phase = 3 /\ submits'[1].fn = "submitPromoEntry"
                           ELSE Phase = 4 /\ submits'[Len(submits')].fn =
                                                 "submitPromoEntryWithCookie")
              /\ (logCalls' # logCalls =>
                     /\ Phase = 5 /\ Phase' = 6
                     /\ logCalls = 0 /\ logCalls' = 1
                     /\ addI = (IF cfClearance # "" THEN AdditionalEntries ELSE 0)
                     /\ Len(submits) = 1 + addI) ]_vars
    /\ [](/\ (Phase = 1 => email = "" /\ creates = 0 /\ submits = <<>> /\ logCalls = 0)
          /\ (Phase = 2 => EmailObtained /\ submits = <<>> /\ logCalls = 0)
          /\ (Phase \in 3..5 =>
                 EmailObtained /\ solveState = "solved" /\ creates = 1 /\ logCalls = 0)
          /\ (Phase \in 4..5 => PrimarySucceeded)
          /\ (Phase = 6 =>
                 /\ (err = NoErr) =
                       (EmailObtained /\ solveState = "solved" /\ PrimarySucceeded)
                 /\ logCalls = (IF err = NoErr THEN 1 ELSE 0))
          /\ (err.tag = "email" =>
                 Phase = 6 /\ ~EmailObtained /\ creates = 0 /\ solveState = "idle"
                           /\ submits = <<>>))

\* a cycle returned nil although all 5 additional submissions failed, with one
\* log entry after the six submissions
C22_Witness ==
    /\ pc = "returned"
    /\ err = NoErr
    /\ solveState = "solved"
    /\ Len(submits) = 1 + AdditionalEntries
    /\ addFailed = AdditionalEntries
    /\ logCalls = 1


\* C23: the solver fails with the timeout error only in a poll step whose
\* call returned without error a status other than "ready", and then exactly
\* when the time since startTime exceeds captchaTimeout. So (i) a poll that
\* answers "ready" returns the token however late it is, (ii) a failed poll
\* never ends the solver with the timeout error, and a solver all of whose
\* polls failed made maxRetries polls and returned retries-exhausted however
\* much time went by, (iii) every poll, the first included, comes after a
\* sleep of 10 seconds.
C23_TimeoutOnlyAfterPendingPoll ==
    /\ [][ /\ (solveState' = "timedout" /\ solveState # "timedout" =>
                 /\ PollStep
                 /\ lastResp'.kind = "json" /\ lastResp'.status # "ready"
                 /\ elapsed' > config.CaptchaTimeout)
           /\ (PollStep /\ lastResp'.kind = "json" /\ lastResp'.status # "ready"
                        /\ elapsed' > config.CaptchaTimeout =>
                 solveState' = "timedout" /\ err' = MkErr("captcha", "timeout", 0))
           /\ (PollStep /\ lastResp'.kind = "json" /\ lastResp'.status = "ready" =>
                 /\ solveState' = "solved"
                 /\ pc' = "submitPromoEntry"
                 /\ err' = NoErr)
           /\ (PollStep /\ lastResp'.kind # "json" => solveState' # "timedout")
           /\ (PollStep =>
                 /\ elapsed' >= elapsed + PollSleepSeconds
                 /\ (elapsed' - elapsed) - PollSleepSeconds \in Latencies) ]_vars
    /\ [](/\ elapsed >= PollSleepSeconds * polls
          /\ (SolverJustReturned /\ polls > 0 /\ pollErrs = polls =>
                 /\ solveState = "exhausted"
                 /\ polls = config.MaxCaptchaRetries
                 /\ err = MkErr("captcha", "exhausted", 0)))

\* all 5 polls failed, the time is past captchaTimeout and the solver
\* returned retries-exhausted
C23_Witness ==
    /\ pc = "returned"
    /\ solveState = "exhausted"
    /\ polls = DefaultMaxCaptchaRetries
    /\ pollErrs = polls
    /\ elapsed > config.CaptchaTimeout
    /\ err = MkErr("captcha", "exhausted", 0)

====
